---- MODULE Spec2Model ----
(***************************************************************************)
(* A model of three parts of goordinate:                                   *)
(*                                                                         *)
(*   - the in-memory backend's namespace object (package memory,           *)
(*     src/unnamed/part_001 lines 183-317): Destroy, SetWorkSpec,          *)
(*     WorkSpec, DestroyWorkSpec, WorkSpecNames, Worker, Workers, each     *)
(*     run by a goroutine under the coordinator-wide lock;                 *)
(*   - the PostgreSQL backend's transaction helper withTx (package         *)
(*     postgres, src/unnamed/part_001 lines 90-155).                       *)
(*   - the PostgreSQL backend's row iteration helper scanRows (package     *)
(*     postgres, src/unnamed/part_001 lines 157-181).                      *)
(*                                                                         *)
(* Object identity matters (handles are Go pointers), so every namespace,  *)
(* work spec and worker lives in a heap, a sequence indexed by its id;     *)
(* id 0 is the nil pointer / the missing map entry.                        *)
(***************************************************************************)
EXTENDS Integers, Sequences, FiniteSets, TLC

\* ------------------------------------------------------------------ bounds

\* How many objects (namespaces, work specs and workers together) are ever
\* allocated.
MaxObjects == 3

\* How many times the database reports a serialization failure (40001) to
\* one call of withTx.
MaxSerializationFailures == 3

\* The retry budget N of a withTx that gives up: how many serialization
\* failures it answers with another attempt.
RetryBudget == 2

\* How many rows the result of a query has at most.
MaxRows == 4

\* ------------------------------------------------------------ input domains

\* The goroutines that call into the package concurrently.
Procs == {"g1", "g2"}

\* Names a namespace can be asked for ("" is the default namespace).
NsNames == {"", "ns"}

\* Keys of ns.workSpecs: every string a "name" entry can carry.
SpecNames == {"", "a"}

\* Keys of ns.workers.
WorkerNames == {"w", "v"}

\* Names of work units.
UnitNames == {"u"}

Nil == 0

\* The value found under data["name"]: nothing (nil interface), a value that
\* is not a string, or a string.
NameVals ==
    {[kind |-> "nil", str |-> ""], [kind |-> "int", str |-> ""]}
        \cup {[kind |-> "string", str |-> s] : s \in SpecNames}

\* The value found under data["weight"]: absent, or an integer.
WeightVals ==
    {[present |-> FALSE, v |-> 0], [present |-> TRUE, v |-> 0], [present |-> TRUE, v |-> 2]}

\* A work spec dictionary (map[string]interface{}), by the entries read.
DataVals == [name : NameVals, weight : WeightVals]

\* The dictionaries passed to SetWorkSpec: every kind of name, and for the
\* name "a" every kind of weight.
SetWorkSpecInputs ==
    {d \in DataVals : d.name.str = "a" \/ d.weight = [present |-> TRUE, v |-> 2]}

\* The empty dictionary, which is also the data of a spec never set.
NoData == [name |-> [kind |-> "nil", str |-> ""], weight |-> [present |-> FALSE, v |-> 0]]

\* Orders in which Go may iterate over the keys of a map.
KeyOrders == {<<"", "a">>, <<"a", "">>}

\* ------------------------------------------------------------------ errors

NoErr == [kind |-> "nil", name |-> ""]
ErrNoWorkSpecName == [kind |-> "ErrNoWorkSpecName", name |-> ""]
ErrBadWorkSpecName == [kind |-> "ErrBadWorkSpecName", name |-> ""]
ErrNoSuchWorkSpec(n) == [kind |-> "ErrNoSuchWorkSpec", name |-> n]
ErrBadWeight == [kind |-> "ErrBadWeight", name |-> ""]

\* ------------------------------------------------------------------- state

VARIABLES
    namespaces,  \* memCoordinate.namespaces: name -> namespace id, Nil if absent
    nsHeap,      \* the namespace objects ever made by newNamespace
    specHeap,    \* the workSpec objects ever made by newWorkSpec
    workerHeap,  \* the worker objects ever made by newWorker
    sem,         \* the coordinator-wide lock: the goroutine holding it, or "free"
    frame,       \* per goroutine: the call it is in and its local variables
    \* package postgres, one call of withTx:
    pc,          \* the statement withTx is at
    tx,          \* withTx's variable tx: a transaction id, Nil for a nil *sql.Tx
    done,        \* withTx's variable done
    err,         \* withTx's named result err
    txs,         \* the transactions Begin has made: status and the calls made on each
    failures,    \* how many serialization failures the database has reported
    \* package postgres, one call of scanRows:
    scanPc,      \* the statement scanRows is at
    rows,        \* the *sql.Rows iterator: its rows, its position, its state
    scanDone,    \* scanRows's variable done
    scanErr,     \* scanRows's named result err
    seen         \* the calls of the callback: the row each saw and its result

memVars == <<namespaces, nsHeap, specHeap, workerHeap, sem, frame>>
txVars == <<pc, tx, done, err, txs, failures>>
scanVars == <<scanPc, rows, scanDone, scanErr, seen>>

\* The object graph a call reads and writes, as one value.
Heap ==
    [namespaces |-> namespaces, nsHeap |-> nsHeap,
     specHeap |-> specHeap, workerHeap |-> workerHeap]

EmptyHeap ==
    [namespaces |-> [n \in NsNames |-> Nil], nsHeap |-> <<>>,
     specHeap |-> <<>>, workerHeap |-> <<>>]

\* A goroutine outside every call.
IdleFrame ==
    [pc |-> "idle", op |-> "none", h |-> Nil, data |-> NoData, name |-> "",
     unit |-> "", order |-> <<>>, spec |-> Nil, worker |-> Nil,
     err |-> NoErr, val |-> Nil, names |-> <<>>,
     wmap |-> [w \in WorkerNames |-> Nil], pre |-> EmptyHeap, start |-> <<>>]

\* ------------------------------------------------------- object constructors

\* newNamespace: a namespace with empty maps.
newNamespace(name) ==
    [name |-> name,
     workSpecs |-> [n \in SpecNames |-> Nil],
     workers |-> [w \in WorkerNames |-> Nil]]

\* newWorkSpec(ns, name): a work spec with no data and no work units.
newWorkSpec(ns, name) ==
    [name |-> name, ns |-> ns, data |-> NoData,
     workUnits |-> [u \in UnitNames |-> "absent"]]

\* newWorker(ns, name): a worker with no attempts.
newWorker(ns, name) ==
    [name |-> name, ns |-> ns, activeAttempts |-> {}, attempts |-> {}]

\* workSpec.setData: validates the dictionary (a non-empty name, a positive
\* weight if there is one) and, if valid, stores it.  Returns the new heap and
\* the error.
setData(hp, spec, data) ==
    IF data.name.str = ""
    THEN [hp |-> hp, err |-> ErrNoWorkSpecName]
    ELSE IF data.weight.present /\ data.weight.v <= 0
    THEN [hp |-> hp, err |-> ErrBadWeight]
    ELSE [hp |-> [hp EXCEPT !.specHeap[spec].data = data], err |-> NoErr]

\* ------------------------------------------------------------ the lock

\* globalLock(c): blocks until the coordinator's lock is free, then takes it.
globalLock(p) ==
    /\ sem = "free"
    /\ sem' = p

\* globalUnlock(c): releases the coordinator's lock.
globalUnlock(p) ==
    sem' = IF sem = p THEN "free" ELSE sem

\* "return val, err" with the deferred globalUnlock still to run.
Return(f, val, e) == [f EXCEPT !.pc = "unlock", !.val = val, !.err = e]

\* ------------------------------------------- the bodies, a statement at a time
\* Each operator takes the object graph and the goroutine's frame and gives
\* the graph and frame after the next statement(s) of the body.

\* memCoordinate.Namespace(name): the registered namespace, made if absent.
NamespaceStep(hp, f) ==
    IF hp.namespaces[f.name] # Nil
    THEN [hp |-> hp, f |-> Return(f, hp.namespaces[f.name], NoErr)]
    ELSE LET id == Len(hp.nsHeap) + 1 IN
         [hp |-> [hp EXCEPT !.nsHeap = Append(@, newNamespace(f.name)),
                            !.namespaces[f.name] = id],
          f |-> Return(f, id, NoErr)]

\* namespace.Destroy without the delete.
DestroyStepKeepsEntry(hp, f) == [hp |-> hp, f |-> Return(f, Nil, NoErr)]

\* namespace.Destroy, line 216: delete(ns.coordinate.namespaces, ns.name).
DestroyStep(hp, f) ==
    [hp |-> [hp EXCEPT !.namespaces[hp.nsHeap[f.h].name] = Nil],
     f |-> Return(f, Nil, NoErr)]

\* namespace.SetWorkSpec, lines 224-231, with the type assertion's result
\* ignored: a name that is not a string is taken to be "".
SetWorkSpecCheckNameNoTypeCheck(hp, f) ==
    IF f.data.name.kind = "nil"
    THEN [hp |-> hp, f |-> Return(f, Nil, ErrNoWorkSpecName)]
    ELSE [hp |-> hp, f |-> [f EXCEPT !.name = f.data.name.str, !.pc = "lookup"]]

\* namespace.SetWorkSpec, lines 224-231: the "name" entry must be there and
\* be a string.
SetWorkSpecCheckName(hp, f) ==
    IF f.data.name.kind = "nil"
    THEN [hp |-> hp, f |-> Return(f, Nil, ErrNoWorkSpecName)]
    ELSE IF f.data.name.kind # "string"
    THEN [hp |-> hp, f |-> Return(f, Nil, ErrBadWorkSpecName)]
    ELSE [hp |-> hp, f |-> [f EXCEPT !.name = f.data.name.str, !.pc = "lookup"]]

\* namespace.SetWorkSpec, lines 232-236, without the "spec == nil" test: a
\* new spec is made and stored whether or not the name had one.
SetWorkSpecLookupAlwaysNew(hp, f) ==
    LET id == Len(hp.specHeap) + 1 IN
    [hp |-> [hp EXCEPT !.specHeap = Append(@, newWorkSpec(f.h, f.name)),
                       !.nsHeap[f.h].workSpecs[f.name] = id],
     f |-> [f EXCEPT !.spec = id, !.pc = "setData"]]

\* namespace.SetWorkSpec, lines 232-236: the spec of that name, made and
\* stored in the map if there is none.
SetWorkSpecLookup(hp, f) ==
    IF hp.nsHeap[f.h].workSpecs[f.name] # Nil
    THEN [hp |-> hp,
          f |-> [f EXCEPT !.spec = hp.nsHeap[f.h].workSpecs[f.name], !.pc = "setData"]]
    ELSE LET id == Len(hp.specHeap) + 1 IN
         [hp |-> [hp EXCEPT !.specHeap = Append(@, newWorkSpec(f.h, f.name)),
                            !.nsHeap[f.h].workSpecs[f.name] = id],
          f |-> [f EXCEPT !.spec = id, !.pc = "setData"]]

\* namespace.SetWorkSpec, lines 237-241, returning a fresh, unregistered spec
\* instead of the one the data was set on.
SetWorkSpecSetDataReturnsCopy(hp, f) ==
    LET r == setData(hp, f.spec, f.data) IN
    IF r.err # NoErr
    THEN [hp |-> r.hp, f |-> Return(f, Nil, r.err)]
    ELSE [hp |-> [r.hp EXCEPT !.specHeap = Append(@, newWorkSpec(f.h, f.name))],
          f |-> Return(f, Len(r.hp.specHeap) + 1, NoErr)]

\* namespace.SetWorkSpec, lines 237-241: set the data; return the spec, or
\* nil and the error.
SetWorkSpecSetData(hp, f) ==
    LET r == setData(hp, f.spec, f.data) IN
    IF r.err # NoErr
    THEN [hp |-> r.hp, f |-> Return(f, Nil, r.err)]
    ELSE [hp |-> r.hp, f |-> Return(f, f.spec, NoErr)]

\* namespace.SetWorkSpec, lines 224-241.
SetWorkSpecStep(hp, f) ==
    CASE f.pc = "checkName" -> SetWorkSpecCheckName(hp, f)
      [] f.pc = "lookup" -> SetWorkSpecLookup(hp, f)
      [] f.pc = "setData" -> SetWorkSpecSetData(hp, f)

\* namespace.WorkSpec, lines 248-252.
WorkSpecStep(hp, f) ==
    IF hp.nsHeap[f.h].workSpecs[f.name] = Nil
    THEN [hp |-> hp, f |-> Return(f, Nil, ErrNoSuchWorkSpec(f.name))]
    ELSE [hp |-> hp, f |-> Return(f, hp.nsHeap[f.h].workSpecs[f.name], NoErr)]

\* namespace.DestroyWorkSpec, lines 259-264, emptying the whole map instead
\* of deleting one entry.
DestroyWorkSpecStepClearsAll(hp, f) ==
    IF hp.nsHeap[f.h].workSpecs[f.name] # Nil
    THEN [hp |-> [hp EXCEPT !.nsHeap[f.h].workSpecs = [n \in SpecNames |-> Nil]],
          f |-> Return(f, Nil, NoErr)]
    ELSE [hp |-> hp, f |-> Return(f, Nil, ErrNoSuchWorkSpec(f.name))]

\* namespace.DestroyWorkSpec, lines 259-264.
DestroyWorkSpecStep(hp, f) ==
    IF hp.nsHeap[f.h].workSpecs[f.name] # Nil
    THEN [hp |-> [hp EXCEPT !.nsHeap[f.h].workSpecs[f.name] = Nil],
          f |-> Return(f, Nil, NoErr)]
    ELSE [hp |-> hp, f |-> Return(f, Nil, ErrNoSuchWorkSpec(f.name))]

\* The keys of a map in the order the iteration visits them.
RECURSIVE KeysInOrder(_, _)
KeysInOrder(m, order) ==
    IF order = <<>> THEN <<>>
    ELSE IF m[Head(order)] # Nil
         THEN <<Head(order)>> \o KeysInOrder(m, Tail(order))
         ELSE KeysInOrder(m, Tail(order))

\* namespace.WorkSpecNames, lines 271-275.
WorkSpecNamesStep(hp, f) ==
    [hp |-> hp,
     f |-> [Return(f, Nil, NoErr) EXCEPT
              !.names = KeysInOrder(hp.nsHeap[f.h].workSpecs, f.order)]]

\* namespace.Worker, line 293: worker := ns.workers[name].
WorkerLookup(hp, f) ==
    [hp |-> hp,
     f |-> [f EXCEPT !.worker = hp.nsHeap[f.h].workers[f.name], !.pc = "create"]]

\* namespace.Worker, lines 294-298, without the "worker == nil" test: a new
\* worker is made and stored at every call.
WorkerCreateAlways(hp, f) ==
    LET id == Len(hp.workerHeap) + 1 IN
    [hp |-> [hp EXCEPT !.workerHeap = Append(@, newWorker(f.h, f.name)),
                       !.nsHeap[f.h].workers[f.name] = id],
     f |-> Return(f, id, NoErr)]

\* namespace.Worker, lines 294-298: make and store the worker if there was
\* none; return it.
WorkerCreate(hp, f) ==
    IF f.worker # Nil
    THEN [hp |-> hp, f |-> Return(f, f.worker, NoErr)]
    ELSE LET id == Len(hp.workerHeap) + 1 IN
         [hp |-> [hp EXCEPT !.workerHeap = Append(@, newWorker(f.h, f.name)),
                            !.nsHeap[f.h].workers[f.name] = id],
          f |-> Return(f, id, NoErr)]

\* namespace.Worker, lines 293-298.
WorkerStep(hp, f) ==
    CASE f.pc = "lookup" -> WorkerLookup(hp, f)
      [] f.pc = "create" -> WorkerCreate(hp, f)

\* namespace.Workers, lines 306-310: a copy of the map.
WorkersStep(hp, f) ==
    [hp |-> hp,
     f |-> [Return(f, Nil, NoErr) EXCEPT !.wmap = hp.nsHeap[f.h].workers]]

\* workSpec.AddWorkUnit(name): inserts an available work unit; a unit that
\* already exists keeps its status (an active attempt is not cancelled).
AddWorkUnitStep(hp, f) ==
    [hp |-> [hp EXCEPT !.specHeap[f.spec].workUnits[f.unit] =
                           IF @ = "absent" THEN "available" ELSE @],
     f |-> Return(f, Nil, NoErr)]

\* worker.MakeAttempt(unit): leases the unit to the worker; the attempt is
\* active on the unit and listed in the worker's active and historical lists.
MakeAttemptStep(hp, f) ==
    LET attempt == [spec |-> f.spec, unit |-> f.unit, worker |-> f.worker] IN
    [hp |-> [hp EXCEPT !.specHeap[f.spec].workUnits[f.unit] = "pending",
                       !.workerHeap[f.worker].activeAttempts = @ \cup {attempt},
                       !.workerHeap[f.worker].attempts = @ \cup {attempt}],
     f |-> Return(f, Nil, NoErr)]

\* The next statement(s) of whatever call the frame is in.
Step(hp, f) ==
    CASE f.op = "Namespace" -> NamespaceStep(hp, f)
      [] f.op = "Destroy" -> DestroyStep(hp, f)
      [] f.op = "SetWorkSpec" -> SetWorkSpecStep(hp, f)
      [] f.op = "WorkSpec" -> WorkSpecStep(hp, f)
      [] f.op = "DestroyWorkSpec" -> DestroyWorkSpecStep(hp, f)
      [] f.op = "WorkSpecNames" -> WorkSpecNamesStep(hp, f)
      [] f.op = "Worker" -> WorkerStep(hp, f)
      [] f.op = "Workers" -> WorkersStep(hp, f)
      [] f.op = "AddWorkUnit" -> AddWorkUnitStep(hp, f)
      [] f.op = "MakeAttempt" -> MakeAttemptStep(hp, f)

\* A whole body run without interruption: what a sequential execution of the
\* call from graph hp gives.
RECURSIVE RunBody(_, _)
RunBody(hp, f) ==
    IF f.pc = "unlock" THEN [hp |-> hp, f |-> f]
    ELSE LET r == Step(hp, f) IN RunBody(r.hp, r.f)

\* ------------------------------------------------------------------ actions

\* Entry to a public operation that forgets to take the lock.
EnterUnlocked(p, f) ==
    /\ frame[p].pc = "idle"
    /\ frame' = [frame EXCEPT ![p] = [f EXCEPT !.pre = Heap, !.start = f]]
    /\ UNCHANGED <<namespaces, nsHeap, specHeap, workerHeap, sem, txVars, scanVars>>

\* Entry to a public operation: "globalLock(ns)" as the first statement, then
\* the body starts with the arguments in frame f.  The frame also remembers
\* the object graph found on entry (pre) and the call itself (start).
Enter(p, f) ==
    /\ frame[p].pc = "idle"
    /\ globalLock(p)
    /\ frame' = [frame EXCEPT ![p] = [f EXCEPT !.pre = Heap, !.start = f]]
    /\ UNCHANGED <<namespaces, nsHeap, specHeap, workerHeap, txVars, scanVars>>

\* The goroutine runs the next statement(s) of the body of operation op.
Run(p, op) ==
    /\ frame[p].op = op
    /\ frame[p].pc \notin {"idle", "unlock"}
    /\ LET r == Step(Heap, frame[p]) IN
       /\ namespaces' = r.hp.namespaces
       /\ nsHeap' = r.hp.nsHeap
       /\ specHeap' = r.hp.specHeap
       /\ workerHeap' = r.hp.workerHeap
       /\ frame' = [frame EXCEPT ![p] = r.f]
    /\ UNCHANGED <<sem, txVars, scanVars>>

\* Whether one more object may be allocated.
CanAllocate == Len(nsHeap) + Len(specHeap) + Len(workerHeap) < MaxObjects

\* The allocated namespace, work spec and worker handles.
NsHandles == 1..Len(nsHeap)
SpecHandles == 1..Len(specHeap)
WorkerHandles == 1..Len(workerHeap)

\* memCoordinate.Namespace(name), for a name among names
Namespace(p, names) ==
    \/ \E name \in names :
         /\ namespaces[name] = Nil => CanAllocate
         /\ Enter(p, [IdleFrame EXCEPT !.op = "Namespace", !.pc = "body", !.name = name])
    \/ Run(p, "Namespace")

\* namespace.Destroy()
Destroy(p) ==
    \/ \E h \in NsHandles :
         Enter(p, [IdleFrame EXCEPT !.op = "Destroy", !.pc = "body", !.h = h])
    \/ Run(p, "Destroy")

\* namespace.SetWorkSpec(workSpec)
SetWorkSpec(p) ==
    \/ \E h \in NsHandles, data \in SetWorkSpecInputs :
         /\ (data.name.kind = "string" /\ nsHeap[h].workSpecs[data.name.str] = Nil)
               => CanAllocate
         /\ Enter(p, [IdleFrame EXCEPT !.op = "SetWorkSpec", !.pc = "checkName",
                                       !.h = h, !.data = data])
    \/ Run(p, "SetWorkSpec")

\* namespace.WorkSpec(name)
WorkSpec(p) ==
    \/ \E h \in NsHandles, name \in SpecNames :
         Enter(p, [IdleFrame EXCEPT !.op = "WorkSpec", !.pc = "body",
                                    !.h = h, !.name = name])
    \/ Run(p, "WorkSpec")

\* namespace.DestroyWorkSpec(name)
DestroyWorkSpec(p) ==
    \/ \E h \in NsHandles, name \in SpecNames :
         Enter(p, [IdleFrame EXCEPT !.op = "DestroyWorkSpec", !.pc = "body",
                                    !.h = h, !.name = name])
    \/ Run(p, "DestroyWorkSpec")

\* namespace.WorkSpecNames()
WorkSpecNames(p) ==
    \/ \E h \in NsHandles, order \in KeyOrders :
         Enter(p, [IdleFrame EXCEPT !.op = "WorkSpecNames", !.pc = "body",
                                    !.h = h, !.order = order])
    \/ Run(p, "WorkSpecNames")

\* namespace.Worker(name)
Worker(p) ==
    \/ \E h \in NsHandles, name \in WorkerNames :
         /\ nsHeap[h].workers[name] = Nil => CanAllocate
         /\ Enter(p, [IdleFrame EXCEPT !.op = "Worker", !.pc = "lookup",
                                       !.h = h, !.name = name])
    \/ Run(p, "Worker")

\* namespace.Workers()
Workers(p) ==
    \/ \E h \in NsHandles :
         Enter(p, [IdleFrame EXCEPT !.op = "Workers", !.pc = "body", !.h = h])
    \/ Run(p, "Workers")

\* workSpec.AddWorkUnit(name, ...)
AddWorkUnit(p) ==
    \/ \E s \in SpecHandles, u \in UnitNames :
         Enter(p, [IdleFrame EXCEPT !.op = "AddWorkUnit", !.pc = "body",
                                    !.spec = s, !.unit = u])
    \/ Run(p, "AddWorkUnit")

\* worker.MakeAttempt(unit, ...), on an available unit of the worker's namespace
MakeAttempt(p) ==
    \/ \E w \in WorkerHandles, s \in SpecHandles, u \in UnitNames :
         /\ workerHeap[w].ns = specHeap[s].ns
         /\ specHeap[s].workUnits[u] = "available"
         /\ Enter(p, [IdleFrame EXCEPT !.op = "MakeAttempt", !.pc = "body",
                                       !.worker = w, !.spec = s, !.unit = u])
    \/ Run(p, "MakeAttempt")

\* "defer globalUnlock(ns)": the call returns and releases the lock.
Unlock(p) ==
    /\ frame[p].pc = "unlock"
    /\ globalUnlock(p)
    /\ frame' = [frame EXCEPT ![p] = IdleFrame]
    /\ UNCHANGED <<namespaces, nsHeap, specHeap, workerHeap, txVars, scanVars>>

\* ------------------------------------------------------- package postgres

\* Error values, by the call that produced them and their kind: "pq40001" is a
\* *pq.Error with Code "40001", "pqOther" a *pq.Error with another code,
\* "other" an error of another type, "ErrTxDone" is sql.ErrTxDone.
TxNoErr == [src |-> "", kind |-> "nil"]
TxErr(src, kind) == [src |-> src, kind |-> kind]

\* Lines 138-139: err is a *pq.Error and its Code is "40001".
IsSerializationFailure(e) == e.kind = "pq40001"

\* What the database can answer to each call.
BeginResults == {"nil", "other"}
ExecResults == {"nil", "pqOther"}
FResults == {"nil", "pq40001", "pqOther", "other"}
CommitResults == {"nil", "pq40001", "pqOther"}
RollbackResults == {"nil", "other"}

\* A kind of answer the database may still give: serialization failures are
\* reported at most MaxSerializationFailures times.
Allowed(kind) == kind = "pq40001" => failures < MaxSerializationFailures

Count(kind) == IF kind = "pq40001" THEN failures + 1 ELSE failures

\* The record of a call on a transaction.
Logged(t, call, kind) == [txs EXCEPT ![t].log = Append(@, [call |-> call, res |-> kind])]

\* (*sql.Tx).Rollback: on a transaction already committed or rolled back it
\* returns sql.ErrTxDone and does nothing; otherwise the transaction ends,
\* whatever the driver answers (kind).  Gives the error and the new txs.
Rollback(t, kind) ==
    IF txs[t].status # "open"
    THEN [err |-> TxErr("Rollback", "ErrTxDone"),
          txs |-> Logged(t, "Rollback", "ErrTxDone")]
    ELSE [err |-> IF kind = "nil" THEN TxNoErr ELSE TxErr("Rollback", kind),
          txs |-> [Logged(t, "Rollback", kind) EXCEPT ![t].status = "rolledback"]]

\* (*sql.Tx).Commit on an open transaction: the transaction ends, committed
\* if the driver answers nil and not committed otherwise.
Commit(t, kind) ==
    [err |-> IF kind = "nil" THEN TxNoErr ELSE TxErr("Commit", kind),
     txs |-> [Logged(t, "Commit", kind) EXCEPT
                ![t].status = IF kind = "nil" THEN "committed" ELSE "commitFailed"]]

\* Lines 115-118: tx, err = theDB(c).Begin(); on an error, return.
TxBegin ==
    /\ pc = "begin"
    /\ \E kind \in BeginResults :
         IF kind = "nil"
         THEN /\ txs' = Append(txs, [status |-> "open", log |-> <<>>])
              /\ tx' = Len(txs) + 1
              /\ err' = TxNoErr
              /\ pc' = "exec"
         ELSE /\ tx' = Nil
              /\ err' = TxErr("Begin", kind)
              /\ pc' = "deferred"
              /\ UNCHANGED txs
    /\ UNCHANGED <<done, failures, memVars, scanVars>>

\* Lines 122-125 with the error of the SET statement ignored: f is called
\* whatever Exec answered.
TxExecIgnoresError ==
    /\ pc = "exec"
    /\ \E kind \in ExecResults :
         /\ txs' = Logged(tx, "Exec", kind)
         /\ err' = IF kind = "nil" THEN TxNoErr ELSE TxErr("Exec", kind)
         /\ pc' = "call"
    /\ UNCHANGED <<tx, done, failures, memVars, scanVars>>

\* Lines 122-125: SET TRANSACTION ISOLATION LEVEL REPEATABLE READ; on an
\* error, return.
TxExec ==
    /\ pc = "exec"
    /\ \E kind \in ExecResults :
         /\ txs' = Logged(tx, "Exec", kind)
         /\ err' = IF kind = "nil" THEN TxNoErr ELSE TxErr("Exec", kind)
         /\ pc' = IF kind = "nil" THEN "call" ELSE "deferred"
    /\ UNCHANGED <<tx, done, failures, memVars, scanVars>>

\* Line 128: err = f(tx).
TxCall ==
    /\ pc = "call"
    /\ \E kind \in FResults :
         /\ Allowed(kind)
         /\ failures' = Count(kind)
         /\ txs' = Logged(tx, "f", kind)
         /\ err' = IF kind = "nil" THEN TxNoErr ELSE TxErr("f", kind)
    /\ pc' = "commit"
    /\ UNCHANGED <<tx, done, memVars, scanVars>>

\* Lines 131-134 without the "err == nil" test: the transaction is committed
\* whatever f returned.
TxCommitAlways ==
    /\ pc = "commit"
    /\ \E kind \in CommitResults :
         /\ Allowed(kind)
         /\ failures' = Count(kind)
         /\ err' = Commit(tx, kind).err
         /\ txs' = Commit(tx, kind).txs
         /\ done' = TRUE
    /\ pc' = "check"
    /\ UNCHANGED <<tx, memVars, scanVars>>

\* Lines 131-134: if f succeeded, commit and set done.
TxCommit ==
    /\ pc = "commit"
    /\ IF err = TxNoErr
       THEN \E kind \in CommitResults :
              /\ Allowed(kind)
              /\ failures' = Count(kind)
              /\ err' = Commit(tx, kind).err
              /\ txs' = Commit(tx, kind).txs
              /\ done' = TRUE
       ELSE UNCHANGED <<err, txs, done, failures>>
    /\ pc' = "check"
    /\ UNCHANGED <<tx, memVars, scanVars>>

\* Lines 138-150 with a retry budget: once RetryBudget serialization failures
\* have been seen, the rollback is followed by a return of a Conflict error
\* instead of another round of the loop.
TxRetryBudget ==
    /\ pc = "check"
    /\ IF IsSerializationFailure(err)
       THEN \E kind \in RollbackResults :
              LET r == Rollback(tx, kind) IN
              /\ txs' = r.txs
              /\ IF r.err # TxNoErr
                 THEN /\ err' = r.err
                      /\ pc' = "deferred"
                      /\ UNCHANGED tx
                 ELSE IF failures >= RetryBudget
                 THEN /\ err' = TxErr("withTx", "Conflict")
                      /\ pc' = "deferred"
                      /\ UNCHANGED tx
                 ELSE /\ tx' = Nil
                      /\ err' = TxNoErr
                      /\ pc' = "begin"
       ELSE /\ pc' = "deferred"
            /\ UNCHANGED <<tx, err, txs>>
    /\ UNCHANGED <<done, failures, memVars, scanVars>>

\* Lines 138-150 without the test of the code: every *pq.Error, whatever its
\* Code, is rolled back and retried.
TxRetryOnAnyPqError ==
    /\ pc = "check"
    /\ IF err.kind \in {"pq40001", "pqOther"}
       THEN \E kind \in RollbackResults :
              LET r == Rollback(tx, kind) IN
              /\ txs' = r.txs
              /\ IF r.err # TxNoErr
                 THEN /\ err' = r.err
                      /\ pc' = "deferred"
                      /\ UNCHANGED tx
                 ELSE /\ tx' = Nil
                      /\ err' = TxNoErr
                      /\ pc' = "begin"
       ELSE /\ pc' = "deferred"
            /\ UNCHANGED <<tx, err, txs>>
    /\ UNCHANGED <<done, failures, memVars, scanVars>>

\* Lines 138-150: on a serialization failure roll back and go round the loop
\* again (return if the rollback fails); on anything else leave the loop.
TxRetry ==
    /\ pc = "check"
    /\ IF IsSerializationFailure(err)
       THEN \E kind \in RollbackResults :
              LET r == Rollback(tx, kind) IN
              /\ txs' = r.txs
              /\ IF r.err # TxNoErr
                 THEN /\ err' = r.err
                      /\ pc' = "deferred"
                      /\ UNCHANGED tx
                 ELSE /\ tx' = Nil
                      /\ err' = TxNoErr
                      /\ pc' = "begin"
       ELSE /\ pc' = "deferred"
            /\ UNCHANGED <<tx, err, txs>>
    /\ UNCHANGED <<done, failures, memVars, scanVars>>

\* Lines 103-110 without the "err == nil" test: the error of the deferred
\* rollback replaces the error there is.
TxDeferredOverwritesErr ==
    /\ pc = "deferred"
    /\ IF tx # Nil /\ ~done
       THEN \E kind \in RollbackResults :
              LET r == Rollback(tx, kind) IN
              /\ txs' = r.txs
              /\ err' = IF r.err # TxNoErr THEN r.err ELSE err
       ELSE UNCHANGED <<txs, err>>
    /\ pc' = "done"
    /\ UNCHANGED <<tx, done, failures, memVars, scanVars>>

\* Lines 103-110, the deferred function: roll back a transaction that is not
\* done, keeping the error there is.
TxDeferred ==
    /\ pc = "deferred"
    /\ IF tx # Nil /\ ~done
       THEN \E kind \in RollbackResults :
              LET r == Rollback(tx, kind) IN
              /\ txs' = r.txs
              /\ err' = IF err = TxNoErr THEN r.err ELSE err
       ELSE UNCHANGED <<txs, err>>
    /\ pc' = "done"
    /\ UNCHANGED <<tx, done, failures, memVars, scanVars>>

TxInit ==
    /\ pc = "begin"
    /\ tx = Nil
    /\ done = FALSE
    /\ err = TxNoErr
    /\ txs = <<>>
    /\ failures = 0

\* ------------------------------------------------------------- scanRows

\* (*sql.Rows).Close: closes an open iterator, with whatever the driver
\* answers (kind); on an iterator already closed it does nothing and answers
\* nil.  Gives the error and the new iterator.
Close(r, kind) ==
    IF r.closed
    THEN [err |-> TxNoErr, rows |-> [r EXCEPT !.closes = Append(@, "nil")]]
    ELSE [err |-> IF kind = "nil" THEN TxNoErr ELSE TxErr("Close", kind),
          rows |-> [r EXCEPT !.closed = TRUE, !.closes = Append(@, kind)]]

\* (*sql.Rows).Err: the error met by the iteration, if any.
RowsErr(r) == IF r.err = "nil" THEN TxNoErr ELSE TxErr("Err", r.err)

\* What the callback and the driver's Close can answer.
CallbackResults == {"nil", "pqOther", "other"}
CloseResults == {"nil", "other"}

\* The caller passes the iterator of a query with n result rows.
ScanStart ==
    /\ scanPc = "start"
    /\ \E n \in 0..MaxRows :
         rows' = [n |-> n, pos |-> 0, closed |-> FALSE, err |-> "nil", closes |-> <<>>]
    /\ scanPc' = "next"
    /\ UNCHANGED <<scanDone, scanErr, seen, memVars, txVars>>

\* Line 172: rows.Next().  It advances to the next row and answers true; or
\* it meets the end of the rows, or an error, closes the iterator and answers
\* false.
ScanNext ==
    /\ scanPc = "next"
    /\ \/ /\ ~rows.closed
          /\ rows.pos < rows.n
          /\ rows' = [rows EXCEPT !.pos = @ + 1]
          /\ scanPc' = "call"
       \/ /\ ~rows.closed
          /\ rows.pos < rows.n
          /\ rows' = [rows EXCEPT !.closed = TRUE, !.err = "iter"]
          /\ scanPc' = "finish"
       \/ /\ rows.closed \/ rows.pos = rows.n
          /\ rows' = [rows EXCEPT !.closed = TRUE]
          /\ scanPc' = "finish"
    /\ UNCHANGED <<scanDone, scanErr, seen, memVars, txVars>>

\* Lines 173-176 going on with the loop whatever the callback returned.
ScanCallIgnoresError ==
    /\ scanPc = "call"
    /\ \E kind \in CallbackResults :
         /\ seen' = Append(seen, [row |-> rows.pos, res |-> kind])
         /\ scanErr' = IF kind = "nil" THEN TxNoErr ELSE TxErr("f", kind)
         /\ scanPc' = "next"
    /\ UNCHANGED <<rows, scanDone, memVars, txVars>>

\* Lines 173-176: err = f(); on an error, return.
ScanCall ==
    /\ scanPc = "call"
    /\ \E kind \in CallbackResults :
         /\ seen' = Append(seen, [row |-> rows.pos, res |-> kind])
         /\ scanErr' = IF kind = "nil" THEN TxNoErr ELSE TxErr("f", kind)
         /\ scanPc' = IF kind = "nil" THEN "next" ELSE "deferred"
    /\ UNCHANGED <<rows, scanDone, memVars, txVars>>

\* Lines 178-180: done = true; err = rows.Err(); return.
ScanFinish ==
    /\ scanPc = "finish"
    /\ scanDone' = TRUE
    /\ scanErr' = RowsErr(rows)
    /\ scanPc' = "deferred"
    /\ UNCHANGED <<rows, seen, memVars, txVars>>

\* Lines 163-170, the deferred function: unless done, close the iterator,
\* keeping the error there is.
ScanDeferred ==
    /\ scanPc = "deferred"
    /\ IF ~scanDone
       THEN \E kind \in CloseResults :
              LET r == Close(rows, kind) IN
              /\ rows' = r.rows
              /\ scanErr' = IF scanErr = TxNoErr THEN r.err ELSE scanErr
       ELSE UNCHANGED <<rows, scanErr>>
    /\ scanPc' = "done"
    /\ UNCHANGED <<scanDone, seen, memVars, txVars>>

ScanInit ==
    /\ scanPc = "start"
    /\ rows = [n |-> 0, pos |-> 0, closed |-> FALSE, err |-> "nil", closes |-> <<>>]
    /\ scanDone = FALSE
    /\ scanErr = TxNoErr
    /\ seen = <<>>

MemInit ==
    /\ namespaces = [n \in NsNames |-> Nil]
    /\ nsHeap = <<>>
    /\ specHeap = <<>>
    /\ workerHeap = <<>>
    /\ sem = "free"
    /\ frame = [p \in Procs |-> IdleFrame]

vars == <<namespaces, nsHeap, specHeap, workerHeap, sem, frame,
          pc, tx, done, err, txs, failures,
          scanPc, rows, scanDone, scanErr, seen>>

Init == MemInit /\ TxInit /\ ScanInit

\* The in-memory backend under concurrent calls, with work units and
\* attempts, all in namespaces of one name.
Next ==
    \E p \in Procs :
        \/ Namespace(p, {"ns"})
        \/ Destroy(p)
        \/ SetWorkSpec(p)
        \/ WorkSpec(p)
        \/ DestroyWorkSpec(p)
        \/ WorkSpecNames(p)
        \/ Worker(p)
        \/ Workers(p)
        \/ AddWorkUnit(p)
        \/ MakeAttempt(p)
        \/ Unlock(p)

Spec == Init /\ [][Next]_vars

\* The in-memory backend under concurrent calls, in namespaces of two names,
\* without work units.
NextNs ==
    \E p \in Procs :
        \/ Namespace(p, NsNames)
        \/ Destroy(p)
        \/ SetWorkSpec(p)
        \/ WorkSpec(p)
        \/ DestroyWorkSpec(p)
        \/ WorkSpecNames(p)
        \/ Worker(p)
        \/ Workers(p)
        \/ Unlock(p)

SpecNs == Init /\ [][NextNs]_vars

\* One call of withTx against a database that answers as it likes.
NextTx ==
    \/ TxBegin
    \/ TxExec
    \/ TxCall
    \/ TxCommit
    \/ TxRetry
    \/ TxDeferred

SpecTx == Init /\ [][NextTx]_vars

\* One call of scanRows on the iterator of a query's result.
NextScan ==
    \/ ScanStart
    \/ ScanNext
    \/ ScanCall
    \/ ScanFinish
    \/ ScanDeferred

SpecScan == Init /\ [][NextScan]_vars

\* One call of withTx against a database whose every call returns: withTx
\* keeps taking steps until it has returned.
SpecTxFair == SpecTx /\ WF_vars(NextTx)

\* ===================================================================== claims

\* ------------------------------------------------------------------------ C1

\* Transaction t saw a serialization failure, from f or from Commit.
EndedInSerializationFailure(t) ==
    \E i \in 1..Len(txs[t].log) :
        txs[t].log[i].call \in {"f", "Commit"} /\ txs[t].log[i].res = "pq40001"

\* The call was made on transaction t.
Called(t, call) == \E i \in 1..Len(txs[t].log) : txs[t].log[i].call = call

\* The driver failed the rollback of transaction t.
RollbackFailed(t) ==
    \E i \in 1..Len(txs[t].log) :
        txs[t].log[i].call = "Rollback" /\ txs[t].log[i].res = "other"

\* C1: when withTx has returned, every attempt that ended in a serialization
\* failure (from f or from Commit) has had its transaction rolled back and
\* was followed by a new transaction on which f was invoked again (unless
\* the rollback, the new Begin or the new SET TRANSACTION itself failed), and
\* the error returned is not that serialization failure.
C1_SerializationFailureRetried ==
    pc = "done" =>
        \A t \in 1..Len(txs) :
            EndedInSerializationFailure(t) =>
                /\ ~IsSerializationFailure(err)
                /\ \/ RollbackFailed(t)
                   \/ /\ txs[t].status = "rolledback"
                      /\ \/ t = Len(txs) /\ err.src = "Begin"
                         \/ /\ t < Len(txs)
                            /\ Called(t + 1, "f") \/ err.src = "Exec"

\* ------------------------------------------------------------------------ C2

\* The goroutine is inside the body of an operation.
InBody(p) == frame[p].pc # "idle"

\* What running the goroutine's call alone, from the object graph it found on
\* entry, gives: the graph and the frame at the return.
Sequential(p) == RunBody(frame[p].pre, frame[p].start)

\* C2: at most one goroutine is inside an operation's body, and it holds the
\* lock; the lock is free exactly when no operation is in progress; and at
\* every return (error returns included) the object graph and the results
\* are those of running the call alone on the graph found when the lock was
\* taken, so the calls take effect one at a time in the order of the lock.
C2_GlobalLockSerializes ==
    /\ \A p, q \in Procs : InBody(p) /\ InBody(q) => p = q
    /\ \A p \in Procs : InBody(p) => sem = p
    /\ (\A p \in Procs : ~InBody(p)) => sem = "free"
    /\ \A p \in Procs :
         frame[p].pc = "unlock" =>
            LET r == Sequential(p) IN
            /\ r.hp = Heap
            /\ [r.f EXCEPT !.pre = frame[p].pre, !.start = frame[p].start] = frame[p]

\* A call that changed the object graph is about to return, the lock still
\* held and the other goroutine kept out.
C2_Witness ==
    \E p \in Procs :
        /\ frame[p].pc = "unlock"
        /\ frame[p].op = "DestroyWorkSpec"
        /\ frame[p].err = NoErr
        /\ frame[p].pre # Heap
        /\ sem = p
        /\ ~ENABLED (\E q \in Procs \ {p} : WorkSpec(q))

\* ------------------------------------------------------------------------ C3

\* The goroutine is about to return from a call of op.
Returning(p, op) == frame[p].pc = "unlock" /\ frame[p].op = op

\* C3: SetWorkSpec of a dictionary without a "name" (or a nil one) returns
\* ErrNoWorkSpecName, and of one whose "name" is not a string returns
\* ErrBadWorkSpecName; either way no spec is returned and the object graph,
\* so the set of work spec names too, is what it was on entry.
C3_BadNameRejected ==
    \A p \in Procs :
        Returning(p, "SetWorkSpec") /\ frame[p].data.name.kind # "string" =>
            /\ frame[p].data.name.kind = "nil" => frame[p].err = ErrNoWorkSpecName
            /\ frame[p].data.name.kind = "int" => frame[p].err = ErrBadWorkSpecName
            /\ frame[p].val = Nil
            /\ Heap = frame[p].pre

\* SetWorkSpec with a name that is not a string returns, in a namespace that
\* already holds a work spec.
C3_Witness ==
    \E p \in Procs :
        /\ Returning(p, "SetWorkSpec")
        /\ frame[p].data.name.kind = "int"
        /\ frame[p].err = ErrBadWorkSpecName
        /\ nsHeap[frame[p].h].workSpecs["a"] # Nil

\* ------------------------------------------------------------------------ C4

\* C4: no namespace holds a work spec under the empty name, and a SetWorkSpec
\* whose name is the empty string returns ErrNoWorkSpecName or
\* ErrBadWorkSpecName.
C4_NoEmptyNamedWorkSpec ==
    /\ \A h \in 1..Len(nsHeap) : nsHeap[h].workSpecs[""] = Nil
    /\ \A p \in Procs :
         Returning(p, "SetWorkSpec") /\ frame[p].data.name = [kind |-> "string", str |-> ""]
            => frame[p].err \in {ErrNoWorkSpecName, ErrBadWorkSpecName}

\* ------------------------------------------------------------------------ C5

\* SetWorkSpec is about to return successfully, for a name the namespace
\* already held on entry.
ReplacedExisting(p) ==
    /\ Returning(p, "SetWorkSpec")
    /\ frame[p].err = NoErr
    /\ frame[p].pre.nsHeap[frame[p].h].workSpecs[frame[p].data.name.str] # Nil

\* C5: a successful SetWorkSpec on an existing name returns the spec the
\* name already mapped to, allocates no spec, leaves the namespaces (so the
\* set of names) as they were, and changes nothing but that spec's data: its
\* work units, the other specs, and the workers with their attempts are as on
\* entry.
C5_SetWorkSpecReplacesInPlace ==
    \A p \in Procs :
        ReplacedExisting(p) =>
            LET f == frame[p]
                old == f.pre.nsHeap[f.h].workSpecs[f.data.name.str]
            IN  /\ f.val = old
                /\ Len(specHeap) = Len(f.pre.specHeap)
                /\ namespaces = f.pre.namespaces
                /\ nsHeap = f.pre.nsHeap
                /\ specHeap = [f.pre.specHeap EXCEPT ![old].data = f.data]
                /\ workerHeap = f.pre.workerHeap

\* SetWorkSpec replaced different data on a spec whose work unit is leased.
C5_Witness ==
    \E p \in Procs :
        /\ ReplacedExisting(p)
        /\ frame[p].pre.specHeap[frame[p].val].data \notin {NoData, frame[p].data}
        /\ specHeap[frame[p].val].workUnits["u"] = "pending"

\* ------------------------------------------------------------------------ C6

\* What WorkSpec(n) on namespace h returns in the current state.
LooksUp(h, n) ==
    WorkSpecStep(Heap, [IdleFrame EXCEPT !.op = "WorkSpec", !.pc = "body",
                                         !.h = h, !.name = n]).f

\* What WorkSpecNames() on namespace h returns in the current state, if the
\* map is visited in this order.
Names(h, order) ==
    WorkSpecNamesStep(Heap, [IdleFrame EXCEPT !.op = "WorkSpecNames", !.pc = "body",
                                              !.h = h, !.order = order]).f.names

\* How many times n is in the sequence.
Occurrences(seq, n) == Cardinality({i \in 1..Len(seq) : seq[i] = n})

\* A goroutine is inside SetWorkSpec or DestroyWorkSpec for name n of
\* namespace h, or inside Destroy of h.
Rewriting(h, n) ==
    \E p \in Procs :
        /\ frame[p].pc \notin {"idle", "unlock"}
        /\ frame[p].h = h
        /\ \/ frame[p].op = "SetWorkSpec" /\ frame[p].data.name.str = n
           \/ frame[p].op = "DestroyWorkSpec" /\ frame[p].name = n
           \/ frame[p].op = "Destroy"

\* After a successful SetWorkSpec(d), WorkSpec(d["name"]) returns the spec
\* SetWorkSpec returned, its data is d, and WorkSpecNames() has the name once.
RoundTripAtReturn ==
    \A p \in Procs :
        Returning(p, "SetWorkSpec") /\ frame[p].err = NoErr =>
            LET f == frame[p]
                r == LooksUp(f.h, f.data.name.str)
            IN  /\ r.err = NoErr
                /\ r.val = f.val
                /\ specHeap[r.val].data = f.data
                /\ \A o \in KeyOrders : Occurrences(Names(f.h, o), f.data.name.str) = 1

\* WorkSpecNames() has no name twice and has exactly the names for which
\* WorkSpec(name) succeeds.
NamesAreTheSpecs ==
    \A h \in 1..Len(nsHeap) :
        \A o \in KeyOrders :
            LET names == Names(h, o) IN
            \A n \in SpecNames :
                Occurrences(names, n) = IF LooksUp(h, n).err = NoErr THEN 1 ELSE 0

\* What WorkSpec(n) returns, and the data of the spec it returns, stay as
\* they are over every step but those of a SetWorkSpec or DestroyWorkSpec on
\* the same name (or a Destroy of the namespace).
LookupStable ==
    \A h \in 1..Len(nsHeap) :
        \A n \in SpecNames :
            LET r == LooksUp(h, n) IN
            r.err = NoErr /\ ~Rewriting(h, n) =>
                /\ LooksUp(h, n)' = r
                /\ specHeap'[r.val].data = specHeap[r.val].data

\* C6: round trip.  After SetWorkSpec(d) succeeds, and until the next
\* SetWorkSpec or DestroyWorkSpec on the name (or Destroy of the namespace),
\* WorkSpec(d["name"]) succeeds with the spec whose data is d, and
\* WorkSpecNames() has the name exactly once; in every state WorkSpecNames()
\* is exactly the set of names for which WorkSpec(name) succeeds.
C6_RoundTrip ==
    /\ [](RoundTripAtReturn /\ NamesAreTheSpecs)
    /\ [][LookupStable]_vars

\* WorkSpec(name) returns a spec whose data an earlier SetWorkSpec stored.
C6_Witness ==
    \E p \in Procs :
        /\ Returning(p, "WorkSpec")
        /\ frame[p].err = NoErr
        /\ specHeap[frame[p].val].data.name = [kind |-> "string", str |-> "a"]
        /\ specHeap[frame[p].val].data.weight = [present |-> TRUE, v |-> 2]

\* ------------------------------------------------------------------------ C7

\* C7: DestroyWorkSpec(name) on an existing spec returns no error and changes
\* nothing but the entry of that name, which is gone: WorkSpec(name) then
\* fails with ErrNoSuchWorkSpec{name} and WorkSpecNames() lacks the name.
\* DestroyWorkSpec(name) and WorkSpec(name) on a name that is not there return
\* ErrNoSuchWorkSpec{name} and change nothing.
C7_DestroyWorkSpec ==
    \A p \in Procs :
        LET f == frame[p] IN
        /\ Returning(p, "DestroyWorkSpec") =>
             IF f.pre.nsHeap[f.h].workSpecs[f.name] # Nil
             THEN /\ f.err = NoErr
                  /\ Heap = [f.pre EXCEPT !.nsHeap[f.h].workSpecs[f.name] = Nil]
                  /\ LooksUp(f.h, f.name).err = ErrNoSuchWorkSpec(f.name)
                  /\ \A o \in KeyOrders : Occurrences(Names(f.h, o), f.name) = 0
             ELSE /\ f.err = ErrNoSuchWorkSpec(f.name)
                  /\ Heap = f.pre
        /\ (Returning(p, "WorkSpec") /\ f.pre.nsHeap[f.h].workSpecs[f.name] = Nil) =>
             /\ f.err = ErrNoSuchWorkSpec(f.name)
             /\ f.val = Nil
             /\ Heap = f.pre

\* DestroyWorkSpec removed a spec from a namespace that holds another one.
C7_Witness ==
    \E p \in Procs :
        /\ Returning(p, "DestroyWorkSpec")
        /\ frame[p].err = NoErr
        /\ \E n \in SpecNames \ {frame[p].name} : nsHeap[frame[p].h].workSpecs[n] # Nil

\* ------------------------------------------------------------------------ C8

\* The attempts worker w refers to, active or historical.
AttemptsOf(w) == workerHeap[w].activeAttempts \cup workerHeap[w].attempts

\* The work spec is one its namespace still holds under its name.
Registered(s) == nsHeap[specHeap[s].ns].workSpecs[specHeap[s].name] = s

\* C8: when DestroyWorkSpec returns successfully, no worker of the namespace
\* refers, in its active or historical attempts, to an attempt on a work unit
\* of a spec the namespace no longer holds.
C8_NoDanglingAttempts ==
    \A p \in Procs :
        Returning(p, "DestroyWorkSpec") /\ frame[p].err = NoErr =>
            \A w \in 1..Len(workerHeap) :
                workerHeap[w].ns = frame[p].h =>
                    \A a \in AttemptsOf(w) : Registered(a.spec)

\* ------------------------------------------------------------------------ C9

\* The worker records ever made for name n in namespace h.
WorkerRecords(h, n) ==
    {w \in 1..Len(workerHeap) : workerHeap[w].ns = h /\ workerHeap[w].name = n}

\* C9: Worker(name) returns no error and a worker; the worker it returns is
\* the only record ever made for that name in that namespace, so the first
\* call makes one record and all calls, concurrent ones included, return that
\* one; Workers() returns, for every name, the one record made for it if the
\* name was ever referenced and no entry otherwise.
C9_WorkerCreatedOnce ==
    /\ \A p \in Procs :
         Returning(p, "Worker") =>
            /\ frame[p].err = NoErr
            /\ WorkerRecords(frame[p].h, frame[p].name) = {frame[p].val}
    /\ \A p \in Procs :
         Returning(p, "Workers") =>
            /\ frame[p].err = NoErr
            /\ \A n \in WorkerNames :
                 WorkerRecords(frame[p].h, n) = {frame[p].wmap[n]} \ {Nil}
    /\ \A h \in 1..Len(nsHeap) :
         \A n \in WorkerNames : Cardinality(WorkerRecords(h, n)) <= 1

\* Worker(name) returns a worker that an earlier call had made.
C9_Witness ==
    \E p \in Procs :
        /\ Returning(p, "Worker")
        /\ frame[p].pre.nsHeap[frame[p].h].workers[frame[p].name] = frame[p].val

\* ----------------------------------------------------------------------- C10

\* Namespace h is not (or no longer) the one registered under its name.
Detached(hp, h) == hp.namespaces[hp.nsHeap[h].name] # h

\* The object graph with namespace h registered under its name.
Attached(hp, h) == [hp EXCEPT !.namespaces[hp.nsHeap[h].name] = h]

\* C10: when Destroy returns, the registry has no entry for the namespace's
\* name.  A call of SetWorkSpec, WorkSpec, DestroyWorkSpec, WorkSpecNames,
\* Worker or Workers on a detached namespace returns what it would return
\* were the namespace registered, and leaves the registry and every other
\* namespace object as they were.  Namespace(name) with no entry registered
\* returns a namespace object that did not exist before, with no work specs
\* and no workers; and every namespace holds only work specs and workers made
\* through it, so it shows none of another handle's.
C10_DestroyDetaches ==
    /\ \A p \in Procs :
         Returning(p, "Destroy") => namespaces[nsHeap[frame[p].h].name] = Nil
    /\ \A p \in Procs :
         LET f == frame[p] IN
         (/\ f.pc = "unlock"
          /\ f.op \in {"SetWorkSpec", "WorkSpec", "DestroyWorkSpec",
                       "WorkSpecNames", "Worker", "Workers"}
          /\ Detached(f.pre, f.h)) =>
            /\ LET r == RunBody(Attached(f.pre, f.h), f.start).f IN
               /\ r.err = f.err
               /\ r.val = f.val
               /\ r.names = f.names
               /\ r.wmap = f.wmap
            /\ namespaces = f.pre.namespaces
            /\ \A g \in 1..Len(f.pre.nsHeap) : g # f.h => nsHeap[g] = f.pre.nsHeap[g]
    /\ \A p \in Procs :
         LET f == frame[p] IN
         Returning(p, "Namespace") /\ f.pre.namespaces[f.name] = Nil =>
            /\ f.val = Len(f.pre.nsHeap) + 1
            /\ namespaces[f.name] = f.val
            /\ nsHeap[f.val] = newNamespace(f.name)
    /\ \A g \in 1..Len(nsHeap) :
         /\ \A n \in SpecNames :
              nsHeap[g].workSpecs[n] # Nil => specHeap[nsHeap[g].workSpecs[n]].ns = g
         /\ \A n \in WorkerNames :
              nsHeap[g].workers[n] # Nil => workerHeap[nsHeap[g].workers[n]].ns = g

\* After Destroy of a namespace that holds a work spec, a new namespace is
\* registered under the same name, and a call through the old handle returns.
C10_Witness ==
    \E p \in Procs :
        LET f == frame[p] IN
        /\ Returning(p, "SetWorkSpec")
        /\ f.err = NoErr
        /\ Detached(Heap, f.h)
        /\ namespaces[nsHeap[f.h].name] \notin {Nil, f.h}
        /\ nsHeap[namespaces[nsHeap[f.h].name]] = newNamespace(nsHeap[f.h].name)

\* ------------------------------------------------- withTx: reading the logs

\* The call on transaction t that answered res.
Has(t, call, res) ==
    \E i \in 1..Len(txs[t].log) :
        txs[t].log[i].call = call /\ txs[t].log[i].res = res

\* How many times the call was made on transaction t.
Calls(t, call) ==
    Cardinality({i \in 1..Len(txs[t].log) : txs[t].log[i].call = call})

\* withTx has returned.
Returned == pc = "done"

\* ----------------------------------------------------------------------- C11

\* C11: when f returns an error that is not a serialization failure, f is not
\* invoked again (its transaction is the last one and saw f once), the
\* transaction is not committed, and once withTx has returned the
\* transaction has been rolled back by one Rollback call and the error
\* returned is exactly f's, whatever the rollback answered.
C11_OtherErrorPropagates ==
    \A t \in 1..Len(txs) :
        \A k \in {"pqOther", "other"} :
            Has(t, "f", k) =>
                /\ t = Len(txs)
                /\ pc \notin {"begin", "exec", "call"}
                /\ Calls(t, "f") = 1
                /\ Calls(t, "Commit") = 0
                /\ err = TxErr("f", k)
                /\ Returned =>
                     /\ Calls(t, "Rollback") = 1
                     /\ txs[t].status = "rolledback"

\* withTx has returned f's error although the rollback failed too.
C11_Witness ==
    /\ Returned
    /\ Len(txs) >= 1
    /\ Has(Len(txs), "f", "pqOther")
    /\ Has(Len(txs), "Rollback", "other")
    /\ err = TxErr("f", "pqOther")

\* ----------------------------------------------------------------------- C12

\* The transactions that were committed.
Committed == {t \in 1..Len(txs) : txs[t].status = "committed"}

\* C12: every Commit comes right after the call of f on the same transaction
\* returned nil; a transaction on which f returned an error is never
\* committed and has been rolled back when withTx returns; and withTx returns
\* nil only if the last transaction saw f return nil and its Commit succeed,
\* and then exactly one transaction was committed.
C12_CommitOnlyAfterSuccess ==
    /\ \A t \in 1..Len(txs) :
         \A i \in 1..Len(txs[t].log) :
             txs[t].log[i].call = "Commit" =>
                 i > 1 /\ txs[t].log[i - 1] = [call |-> "f", res |-> "nil"]
    /\ \A t \in 1..Len(txs) :
         (\E k \in FResults \ {"nil"} : Has(t, "f", k)) =>
             /\ Calls(t, "Commit") = 0
             /\ Returned => Calls(t, "Rollback") >= 1
    /\ (Returned /\ err = TxNoErr) =>
         /\ Len(txs) >= 1
         /\ Has(Len(txs), "f", "nil")
         /\ Has(Len(txs), "Commit", "nil")
         /\ Committed = {Len(txs)}

\* withTx returns nil after a retry: the first attempt was rolled back, the
\* second committed.
C12_Witness ==
    /\ Returned
    /\ err = TxNoErr
    /\ Len(txs) = 2
    /\ Has(1, "f", "pq40001")
    /\ txs[1].status = "rolledback"

\* ----------------------------------------------------------------------- C13

\* C13 (as claimed): withTx retries at most up to a budget.  Once the first
\* RetryBudget attempts have all ended in a serialization failure reported by
\* f, no further transaction is begun, and withTx returns a Conflict error
\* (unless the last rollback failed).
C13_BoundedRetry ==
    (Len(txs) >= RetryBudget /\ \A t \in 1..RetryBudget : Has(t, "f", "pq40001")) =>
        /\ Len(txs) = RetryBudget
        /\ (Returned /\ ~RollbackFailed(RetryBudget)) => err.kind = "Conflict"

\* C13 (amended): withTx has no retry budget.  It never returns a Conflict
\* error, and it never stops after an attempt whose f reported a
\* serialization failure and whose rollback succeeded: however many attempts
\* came before, such an attempt is followed by a new Begin (which may fail).
C13_UnboundedRetry ==
    /\ err.kind # "Conflict"
    /\ pc \in {"deferred", "done"} =>
         \A t \in 1..Len(txs) :
             (Has(t, "f", "pq40001") /\ Has(t, "Rollback", "nil")) =>
                 \/ t < Len(txs)
                 \/ err.src = "Begin"

\* withTx has returned after more attempts than the budget, the first
\* RetryBudget + 1 of which ended in a serialization failure of f.
C13_Witness ==
    /\ Returned
    /\ Len(txs) > RetryBudget + 1
    /\ \A t \in 1..(RetryBudget + 1) : Has(t, "f", "pq40001")

\* ----------------------------------------------------------------------- C15

\* C15: when withTx has returned, every transaction it began has been ended
\* by exactly one call of Commit or Rollback: none is left open, none
\* receives a Commit and then a Rollback, none receives two Rollbacks.
C15_EveryTxEndedOnce ==
    Returned =>
        \A t \in 1..Len(txs) :
            /\ txs[t].status # "open"
            /\ Calls(t, "Commit") + Calls(t, "Rollback") = 1

\* ----------------------------------------------------------------------- C17

\* How many times f has been invoked.
FInvocations ==
    Cardinality(UNION {{<<t, i>> : i \in {j \in 1..Len(txs[t].log) :
                                             txs[t].log[j].call = "f"}} :
                       t \in 1..Len(txs)})

\* The attempts that ended in a serialization failure and were retried: the
\* rollback succeeded and the loop went round again.
Retried ==
    {t \in 1..Len(txs) : EndedInSerializationFailure(t) /\ Has(t, "Rollback", "nil")}

\* The attempt on transaction t ended in success or in an error that is not a
\* serialization failure.
EndedForGood(t) ==
    \/ Has(t, "f", "pqOther")
    \/ Has(t, "f", "other")
    \/ Has(t, "Commit", "nil")
    \/ Has(t, "Commit", "pqOther")

\* After an attempt that ended for good no other attempt is started.
NoAttemptAfterEnd ==
    \A t \in 1..Len(txs) :
        EndedForGood(t) => t = Len(txs) /\ pc \notin {"begin", "exec", "call"}

\* C17 (as claimed): withTx eventually returns; when it has, f has been
\* invoked exactly one more time than there were retried attempts; and no
\* attempt follows one that ended in success or in a non-serialization error.
C17_Liveness ==
    /\ <>Returned
    /\ [](Returned => FInvocations = Cardinality(Retried) + 1)
    /\ []NoAttemptAfterEnd

\* C17 (amended): withTx eventually returns; when it has, f has been invoked
\* one more time than there were retried attempts if the last attempt got as
\* far as f, and as many times if the last attempt's Begin or SET TRANSACTION
\* failed; and no attempt follows one that ended in success or in a
\* non-serialization error.
C17_LivenessAmended ==
    /\ <>Returned
    /\ [](Returned =>
            FInvocations = Cardinality(Retried)
                             + (IF err.src \in {"Begin", "Exec"} THEN 0 ELSE 1))
    /\ []NoAttemptAfterEnd

\* withTx has returned after two retries, f invoked three times.
C17_Witness ==
    /\ Returned
    /\ Cardinality(Retried) = 2
    /\ FInvocations = 3

\* ----------------------------------------------------------------------- C18

\* C18: f is only ever the second call on a transaction, right after a SET
\* TRANSACTION that succeeded on it, so on a transaction begun in the same
\* round of the loop and neither committed nor rolled back; a transaction
\* whose SET failed is the last one, never sees f, and its error is the one
\* returned; and when Begin failed (withTx holds no transaction) the error
\* returned is that of Begin.
C18_FOnlyAfterSet ==
    /\ \A t \in 1..Len(txs) :
         \A i \in 1..Len(txs[t].log) :
             txs[t].log[i].call = "f" =>
                 i = 2 /\ txs[t].log[1] = [call |-> "Exec", res |-> "nil"]
    /\ \A t \in 1..Len(txs) :
         Has(t, "Exec", "pqOther") =>
             /\ Calls(t, "f") = 0
             /\ t = Len(txs)
             /\ pc \in {"deferred", "done"}
             /\ err = TxErr("Exec", "pqOther")
    /\ (pc \in {"deferred", "done"} /\ tx = Nil) => err.src = "Begin"

\* withTx has returned the error of a SET TRANSACTION that failed on the
\* transaction of a retry.
C18_Witness ==
    /\ Returned
    /\ Len(txs) = 2
    /\ Has(1, "f", "pq40001")
    /\ Has(2, "Exec", "pqOther")
    /\ err = TxErr("Exec", "pqOther")

\* ----------------------------------------------------------------------- C14

\* C14: a SetWorkSpec that returns an error leaves the namespace as it found
\* it: the object graph, so the set of work spec names, is the one on entry,
\* and a name that had no work spec on entry still has none, WorkSpec(name)
\* failing with ErrNoSuchWorkSpec{name}.
C14_FailedSetWorkSpecChangesNothing ==
    \A p \in Procs :
        LET f == frame[p] IN
        (Returning(p, "SetWorkSpec") /\ f.err # NoErr) =>
            /\ Heap = f.pre
            /\ \A o \in KeyOrders : Names(f.h, o) = KeysInOrder(f.pre.nsHeap[f.h].workSpecs, o)
            /\ (f.data.name.kind = "string"
                  /\ f.pre.nsHeap[f.h].workSpecs[f.data.name.str] = Nil) =>
                 LooksUp(f.h, f.data.name.str).err = ErrNoSuchWorkSpec(f.data.name.str)

\* ----------------------------------------------------------------------- C16

\* C16: Destroy on a handle that is already detached leaves the registry as
\* it was; in particular a namespace registered later under the same name
\* stays registered.
C16_DestroyOfDetachedHandle ==
    \A p \in Procs :
        LET f == frame[p] IN
        (Returning(p, "Destroy") /\ Detached(f.pre, f.h)) =>
            namespaces = f.pre.namespaces

\* ----------------------------------------------------------------------- C19

\* The work specs and workers made through namespace g, and g's maps, are in
\* graph hp2 what they are in graph hp1.
SameContents(hp1, hp2, g) ==
    /\ hp2.nsHeap[g] = hp1.nsHeap[g]
    /\ \A s \in 1..Len(hp1.specHeap) :
         hp1.specHeap[s].ns = g => hp2.specHeap[s] = hp1.specHeap[s]
    /\ \A w \in 1..Len(hp1.workerHeap) :
         hp1.workerHeap[w].ns = g => hp2.workerHeap[w] = hp1.workerHeap[w]

\* Namespace g is registered in graph hp2 if it is in graph hp1, and the
\* other way round.
SameRegistryEntry(hp1, hp2, g) ==
    (hp1.namespaces[hp1.nsHeap[g].name] = g) <=> (hp2.namespaces[hp2.nsHeap[g].name] = g)

\* C19: when SetWorkSpec, DestroyWorkSpec, Worker or Destroy returns from a
\* call on namespace h, every other namespace object has the registry entry,
\* the maps, the work specs and the workers it had on entry.
C19_NamespacesDisjoint ==
    \A p \in Procs :
        LET f == frame[p] IN
        (f.pc = "unlock" /\ f.op \in {"SetWorkSpec", "DestroyWorkSpec", "Worker", "Destroy"}) =>
            \A g \in 1..Len(f.pre.nsHeap) :
                g # f.h =>
                    /\ SameContents(f.pre, Heap, g)
                    /\ SameRegistryEntry(f.pre, Heap, g)

\* ----------------------------------------------------------------------- C20

\* The callback has returned an error.
CallbackFailed == seen # <<>> /\ seen[Len(seen)].res # "nil"

\* C20: the callback sees the rows one by one in order, each once, and only
\* the last call can have returned an error.  After a callback error no
\* further row is advanced to; when scanRows has returned, the iterator has
\* been closed by one call of Close and the error returned is the
\* callback's, whatever Close answered.  Without a callback error the error
\* returned is rows.Err(), and Close is not called.  At every return the
\* iterator is closed (an exhausted iterator is closed by Next).
C20_ScanRows ==
    /\ \A i \in 1..Len(seen) : seen[i].row = i
    /\ \A i \in 1..(Len(seen) - 1) : seen[i].res = "nil"
    /\ Len(seen) = IF scanPc = "call" THEN rows.pos - 1 ELSE rows.pos
    /\ CallbackFailed =>
         /\ scanPc \in {"deferred", "done"}
         /\ scanErr = TxErr("f", seen[Len(seen)].res)
         /\ scanPc = "done" => rows.closed /\ Len(rows.closes) = 1
    /\ (scanPc = "done" /\ ~CallbackFailed) =>
         /\ scanErr = RowsErr(rows)
         /\ rows.closes = <<>>
         /\ rows.err = "nil" => rows.pos = rows.n
    /\ scanPc = "done" => rows.closed

\* scanRows has returned the error of the callback on the second of three
\* rows or more, although Close failed too.
C20_Witness ==
    /\ scanPc = "done"
    /\ Len(seen) = 2
    /\ rows.n >= 3
    /\ seen[2].res = "other"
    /\ rows.closes = <<"other">>
    /\ scanErr = TxErr("f", "other")

====
